---- MODULE Spec2Model ----
(***************************************************************************)
(* Model of lib/htmlparser.c: the parseHTML extension function, its        *)
(* selector callback, the ResultCollector buffer and the two text helpers  *)
(* cleanText and escapeJSON.                                               *)
(*                                                                         *)
(* A C string is a sequence of one-character strings (its bytes up to the  *)
(* terminating NUL).  A pointer that may be NULL is a record               *)
(* [null |-> BOOLEAN, str |-> sequence].                                   *)
(***************************************************************************)
EXTENDS Integers, Sequences, FiniteSets, TLC

\* ------------------------------------------------------------------ bounds

\* Longest input of the text helpers under SpecText.
MaxTextLen == 4

\* Most nodes lxb_selectors_find hands to the callback in one call.
MaxNodes == 2

\* Most resultCollectorAppend calls of one run of SpecAppend.
MaxAppends == 3

\* ------------------------------------------------------- program constants

\* collector->capacity = 4096
InitialCapacity == 4096

\* char buffer[256]
HeaderBufSize == 256

\* ------------------------------------------------------------------- bytes

SP == " "
TAB == "\t"
LF == "\n"
CR == "\r"
FF == "\f"
QUOTE == "\""
BSL == "\\"

\* Bytes below 0x20 that occur in the model.
ControlChars == {TAB, LF, CR, FF}

NullStr == [null |-> TRUE, str |-> <<>>]

Some(s) == [null |-> FALSE, str |-> s]

\* All sequences over S of length at most n.
SeqsUpTo(S, n) == UNION {[1..k -> S] : k \in 0..n}

\* n copies of the byte c.
Fill(c, n) == [i \in 1..n |-> c]

\* Marks a byte of a malloc'ed buffer that was never written.
Uninit == "UNINIT"

\* ---------------------------------------------------------------- cleanText

\* c == ' ' || c == '\t' || c == '\n' || c == '\r'
IsSpace(c) == c \in {SP, TAB, LF, CR}

\* buf[pos] = c on a buffer of n bytes (indices 0..n-1); a write outside the
\* buffer is recorded in oob and changes nothing.
WriteAt(st, pos, c, n) ==
    IF pos \in 0..(n - 1)
    THEN [st EXCEPT !.buf = [st.buf EXCEPT ![pos] = c],
                    !.maxWrite = IF pos > st.maxWrite THEN pos ELSE st.maxWrite]
    ELSE [st EXCEPT !.oob = TRUE]

\* One iteration of the loop of cleanText, omitting "lastWasSpace = 1".
cleanStepNoFlag(st, c, n) ==
    IF IsSpace(c)
    THEN IF ~st.lastWasSpace /\ st.writePos > 0
         THEN [WriteAt(st, st.writePos, SP, n) EXCEPT !.writePos = st.writePos + 1]
         ELSE st
    ELSE [WriteAt(st, st.writePos, c, n) EXCEPT !.writePos = st.writePos + 1,
                                                !.lastWasSpace = FALSE]

\* One iteration of the loop of cleanText on the byte c; n is the size of
\* the buffer cleaned.
cleanStep(st, c, n) ==
    IF IsSpace(c)
    THEN IF ~st.lastWasSpace /\ st.writePos > 0
         THEN [WriteAt(st, st.writePos, SP, n) EXCEPT !.writePos = st.writePos + 1,
                                                      !.lastWasSpace = TRUE]
         ELSE st
    ELSE [WriteAt(st, st.writePos, c, n) EXCEPT !.writePos = st.writePos + 1,
                                                !.lastWasSpace = FALSE]

\* for (size_t i = 0; i < len; i++): text[i] is text[i + 1] of the sequence.
RECURSIVE cleanLoop(_, _, _)
cleanLoop(text, i, st) ==
    IF i < Len(text)
    THEN cleanLoop(text, i + 1, cleanStep(st, text[i + 1], Len(text) + 1))
    ELSE st

\* The end of cleanText without the removal of the trailing space.
cleanFinishKeepSpace(st, n) ==
    WriteAt(st, st.writePos, "NUL", n)

\* The end of cleanText: drop one trailing space, write the terminator.
cleanFinish(st, n) ==
    LET readOk == st.writePos > 0 /\ (st.writePos - 1) \in 0..(n - 1)
        last == IF readOk THEN st.buf[st.writePos - 1] ELSE Uninit
        badRead == st.writePos > 0 /\ (~readOk \/ last = Uninit)
        wp == IF st.writePos > 0 /\ last = SP THEN st.writePos - 1 ELSE st.writePos
        st2 == [st EXCEPT !.writePos = wp, !.oob = st.oob \/ badRead]
    IN WriteAt(st2, wp, "NUL", n)

\* The C string held by a buffer once its terminator is at writePos.
BufStr(st) == [i \in 1..st.writePos |-> st.buf[i - 1]]

\* The body of cleanText after a successful malloc(len + 1): the final
\* buffer, writePos and whether any access left the buffer.
cleanTextRun(text) ==
    LET n == Len(text) + 1
        st0 == [buf |-> [i \in 0..(n - 1) |-> Uninit], writePos |-> 0,
                lastWasSpace |-> TRUE, oob |-> FALSE, maxWrite |-> -1]
    IN cleanFinish(cleanLoop(text, 0, st0), n)

\* cleanText(text): NULL for a NULL argument or a failed malloc.
cleanText(text, mallocOk) ==
    IF text.null \/ ~mallocOk THEN NullStr ELSE Some(BufStr(cleanTextRun(text.str)))

\* --------------------------------------------------------------- escapeJSON

\* One iteration of the loop of escapeJSON that forgets the backslash case.
escapeStepNoBackslash(st, c, n) ==
    LET put1(s, x) == [WriteAt(s, s.writePos, x, n) EXCEPT !.writePos = s.writePos + 1]
        put2(x, y) == put1(put1(st, x), y)
    IN IF c = QUOTE THEN put2(BSL, c)
       ELSE IF c = LF THEN put2(BSL, "n")
       ELSE IF c = CR THEN put2(BSL, "r")
       ELSE IF c = TAB THEN put2(BSL, "t")
       ELSE put1(st, c)

\* One iteration of the loop of escapeJSON on the byte c; n is the size of
\* the buffer escaped.
escapeStep(st, c, n) ==
    LET put1(s, x) == [WriteAt(s, s.writePos, x, n) EXCEPT !.writePos = s.writePos + 1]
        put2(x, y) == put1(put1(st, x), y)
    IN IF c = QUOTE \/ c = BSL THEN put2(BSL, c)
       ELSE IF c = LF THEN put2(BSL, "n")
       ELSE IF c = CR THEN put2(BSL, "r")
       ELSE IF c = TAB THEN put2(BSL, "t")
       ELSE put1(st, c)

RECURSIVE escapeLoop(_, _, _)
escapeLoop(str, i, st) ==
    IF i < Len(str)
    THEN escapeLoop(str, i + 1, escapeStep(st, str[i + 1], Len(str) * 2 + 1))
    ELSE st

\* The body of escapeJSON after a successful malloc(len * 2 + 1).
escapeJSONRun(str) ==
    LET n == Len(str) * 2 + 1
        st0 == [buf |-> [i \in 0..(n - 1) |-> Uninit], writePos |-> 0,
                oob |-> FALSE, maxWrite |-> -1]
        st1 == escapeLoop(str, 0, st0)
    IN WriteAt(st1, st1.writePos, "NUL", n)

\* escapeJSON(str): NULL for a NULL argument or a failed malloc.
escapeJSON(str, mallocOk) ==
    IF str.null \/ ~mallocOk THEN NullStr ELSE Some(BufStr(escapeJSONRun(str.str)))

\* ---------------------------------------------------------- ResultCollector

NoCollector == [null |-> TRUE, json |-> 0, str |-> <<>>, size |-> 0,
                capacity |-> 0, itemCount |-> 0]

\* resultCollectorCreate() when both mallocs succeed; json is the id of the
\* heap block, str the C string it holds.
resultCollectorCreate ==
    [null |-> FALSE, json |-> 1, str |-> <<"[">>, size |-> 1,
     capacity |-> InitialCapacity, itemCount |-> 0]

\* while (newCapacity < needed) newCapacity *= 2;
RECURSIVE GrowLoop(_, _)
GrowLoop(newCapacity, needed) ==
    IF newCapacity < needed THEN GrowLoop(newCapacity * 2, needed) ELSE newCapacity

\* strcpy(collector->json + collector->size, str); collector->size += len;
appendCopy(c, str) ==
    [c EXCEPT !.str = SubSeq(c.str, 1, c.size) \o str, !.size = c.size + Len(str)]

\* resultCollectorAppend that doubles the capacity once instead of looping.
resultCollectorAppendOneDoubling(c, str, reallocOk, moved) ==
    LET needed == c.size + Len(str) + 1
    IN IF needed > c.capacity
       THEN IF ~reallocOk
            THEN [ret |-> 0, collector |-> c, freed |-> {}]
            ELSE [ret |-> 1,
                  collector |-> appendCopy([c EXCEPT !.json = IF moved THEN c.json + 1 ELSE c.json,
                                                     !.capacity = c.capacity * 2], str),
                  freed |-> IF moved THEN {c.json} ELSE {}]
       ELSE [ret |-> 1, collector |-> appendCopy(c, str), freed |-> {}]

\* resultCollectorAppend(collector, str).  reallocOk: realloc succeeds;
\* moved: it returns a new block (and frees the old one) rather than growing
\* in place.  Returns the return value, the collector afterwards and the
\* heap blocks freed by the call.
resultCollectorAppend(c, str, reallocOk, moved) ==
    LET needed == c.size + Len(str) + 1
    IN IF needed > c.capacity
       THEN IF ~reallocOk
            THEN [ret |-> 0, collector |-> c, freed |-> {}]
            ELSE [ret |-> 1,
                  collector |-> appendCopy([c EXCEPT !.json = IF moved THEN c.json + 1 ELSE c.json,
                                                     !.capacity = GrowLoop(c.capacity * 2, needed)], str),
                  freed |-> IF moved THEN {c.json} ELSE {}]
       ELSE [ret |-> 1, collector |-> appendCopy(c, str), freed |-> {}]

\* The outcomes realloc allows for one call: both flags matter only when
\* the buffer has to grow.
AppendOutcomes(c, str) ==
    IF c.size + Len(str) + 1 > c.capacity
    THEN {resultCollectorAppend(c, str, ok, mv) : ok \in BOOLEAN, mv \in BOOLEAN}
    ELSE {resultCollectorAppend(c, str, TRUE, FALSE)}

\* ------------------------------------------------------------------- state

VARIABLES
    pc,           \* position of the parseHTML call
    res,          \* per resource: times acquired and times released
    collector,    \* the ResultCollector (NoCollector before its creation)
    freedBlocks,  \* heap blocks of the collector's buffer that were freed
    cb,           \* locals of the running selectorCallback
    status,       \* return value of lxb_selectors_find
    stack,        \* values pushed to the Lua stack by the call
    nret,         \* return value of parseHTML (number of results), -1 before
    matched,      \* the nodes handed to selectorCallback so far, in order
    firstFail,    \* the first step of the call that failed, "none" if none
    allocFailed,  \* a malloc or realloc of htmlparser.c returned NULL
    useAfterFree, \* a resource was used after its release
    tpc,          \* SpecText: position
    tIn,          \* SpecText: the input string
    tOut,         \* SpecText: the result of the helper applied to tIn
    tOut2,        \* SpecText: the result of cleanText on its own result
    aStr,         \* SpecAppend: argument of the last resultCollectorAppend
    aRet,         \* SpecAppend: its return value
    aCount        \* SpecAppend: calls made

mainVars == <<pc, res, cb, status, stack, nret, matched, firstFail, allocFailed,
              useAfterFree>>
collVars == <<collector, freedBlocks>>
textVars == <<tpc, tIn, tOut, tOut2>>
appendVars == <<aStr, aRet, aCount>>
vars == <<mainVars, collVars, textVars, appendVars>>

\* ---------------------------------------------------------------- resources

Resources == {"document", "parser", "selectors", "list", "collector", "buffer",
              "content", "cleaned", "escaped"}

NoResources == [r \in Resources |-> [acq |-> 0, rel |-> 0]]

Acquire(t, S) == [r \in Resources |-> IF r \in S THEN [t[r] EXCEPT !.acq = @ + 1] ELSE t[r]]

Release(t, S) == [r \in Resources |-> IF r \in S THEN [t[r] EXCEPT !.rel = @ + 1] ELSE t[r]]

Live(t, r) == t[r].rel < t[r].acq

\* ------------------------------------------------------------ parseHTML, 1

\* The steps of parseHTML up to the creation of the collector, in order.
StepOrder == <<"args", "doc_create", "doc_parse", "parser_create", "parser_init",
               "selectors_create", "selectors_init", "css_parse",
               "collector_struct", "collector_json">>

StepIndex(s) == CHOOSE i \in 1..Len(StepOrder) : StepOrder[i] = s

\* What a step acquires when it succeeds.
StepAcquires(s) ==
    CASE s = "doc_create" -> {"document"}
      [] s = "parser_create" -> {"parser"}
      [] s = "selectors_create" -> {"selectors"}
      [] s = "css_parse" -> {"list"}
      [] s = "collector_struct" -> {"collector"}
      [] s = "collector_json" -> {"buffer"}
      [] OTHER -> {}

\* What the branch taken when a step fails releases.
StepFailReleases(s) ==
    CASE s = "args" -> {}
      [] s = "doc_create" -> {}
      [] s = "doc_parse" -> {"document"}
      [] s = "parser_create" -> {"document"}
      [] s = "parser_init" -> {"parser", "document"}
      [] s = "selectors_create" -> {"parser", "document"}
      [] s = "selectors_init" -> {"selectors", "parser", "document"}
      [] s = "css_parse" -> {"selectors", "parser", "document"}
      [] s = "collector_struct" -> {"selectors", "parser", "document"}
      [] s = "collector_json" -> {"collector", "selectors", "parser", "document"}

\* The message pushed by the branch taken when a step fails.
StepFailMessage(s) ==
    CASE s = "args" -> "Invalid arguments"
      [] s = "doc_create" -> "Failed to create document"
      [] s = "doc_parse" -> "Failed to parse HTML"
      [] s = "parser_create" -> "Failed to create CSS parser"
      [] s = "parser_init" -> "Failed to initialize CSS parser"
      [] s = "selectors_create" -> "Failed to create selectors"
      [] s = "selectors_init" -> "Failed to initialize selectors"
      [] s = "css_parse" -> "Failed to parse CSS selector"
      [] s = "collector_struct" -> "Out of memory"
      [] s = "collector_json" -> "Out of memory"

PushNil == [t |-> "nil"]

PushMessage(m) == [t |-> "message", m |-> m]

PushJSON(s) == [t |-> "json", s |-> s]

\* The resources held once the steps before index k have succeeded.
RECURSIVE AcquiredBefore(_)
AcquiredBefore(k) ==
    IF k <= 1 THEN NoResources
    ELSE Acquire(AcquiredBefore(k - 1), StepAcquires(StepOrder[k - 1]))

NoCallback == [nodeType |-> <<>>, escaped |-> <<>>]

\* parseHTML from its entry to the call of lxb_selectors_find.  failAt is the
\* first step that fails ("none": the collector is created).
ParseHTMLBegin ==
    /\ pc = "start"
    /\ \E failAt \in {StepOrder[i] : i \in 1..Len(StepOrder)} \cup {"none"} :
        IF failAt = "none"
        THEN /\ pc' = "find"
             /\ res' = AcquiredBefore(Len(StepOrder) + 1)
             /\ collector' = resultCollectorCreate
             /\ UNCHANGED <<stack, nret, firstFail, allocFailed>>
        ELSE /\ pc' = "done"
             /\ res' = Release(AcquiredBefore(StepIndex(failAt)), StepFailReleases(failAt))
             /\ stack' = <<PushNil, PushMessage(StepFailMessage(failAt))>>
             /\ nret' = 2
             /\ firstFail' = failAt
             /\ allocFailed' = (failAt \in {"collector_struct", "collector_json"})
             /\ UNCHANGED collector
    /\ UNCHANGED <<freedBlocks, cb, status, matched, useAfterFree, textVars, appendVars>>

\* --------------------------------------------------------- selectorCallback

\* Tag names of matched elements: a plain one, one holding a double quote
\* (the HTML tokenizer accepts it in a tag name) and one of 240 bytes.
TagNames == {<<"p">>, <<"a", QUOTE>>, Fill("x", 240)}

\* What lxb_dom_node_text_content returns: NULL, an empty string, or text.
Contents == {NullStr, Some(<<>>), Some(<<SP, LF>>), Some(<<"a", SP, SP, "b">>),
             Some(<<QUOTE>>), Some(<<FF>>)}

\* The nodes lxb_selectors_find may hand to the callback.
Nodes ==
    {[isElement |-> TRUE, tag |-> Some(t), content |-> c] : t \in TagNames, c \in Contents}
    \cup {[isElement |-> e, tag |-> NullStr, content |-> c] : e \in BOOLEAN, c \in Contents}

\* const char* nodeType = "text"; replaced by the local name of an element.
NodeTypeOf(node) ==
    IF node.isElement /\ ~node.tag.null THEN node.tag.str ELSE <<"t", "e", "x", "t">>

\* snprintf(buffer, sizeof(buffer), "{\"type\":\"%s\",\"content\":\"", nodeType):
\* at most sizeof(buffer) - 1 bytes of the formatted text are kept.
ItemHeader(nodeType) ==
    LET full == <<"{", QUOTE, "t", "y", "p", "e", QUOTE, ":", QUOTE>> \o nodeType
                \o <<QUOTE, ",", QUOTE, "c", "o", "n", "t", "e", "n", "t", QUOTE, ":", QUOTE>>
    IN IF Len(full) > HeaderBufSize - 1 THEN SubSeq(full, 1, HeaderBufSize - 1) ELSE full

\* The resource table after a realloc that moved the buffer: the old block
\* is released, the new one acquired.
AfterAppend(t, o) ==
    IF o.freed = {} THEN t ELSE Release(Acquire(t, {"buffer"}), {"buffer"})

\* selectorCallback from its entry to the first append: the node type, the
\* text content, cleanText and escapeJSON.  cleanOk, escOk: the malloc of
\* cleanText, of escapeJSON succeeds.
SelectorCallback ==
    /\ pc = "find"
    /\ Len(matched) < MaxNodes
    /\ \E node \in Nodes, cleanOk \in BOOLEAN, escOk \in BOOLEAN :
        LET content == node.content
            skipped == content.null \/ Len(content.str) = 0
            r1 == IF content.null THEN res ELSE Acquire(res, {"content"})
            cleaned == cleanText(content, cleanOk)
            r2 == Release(IF cleaned.null THEN r1 ELSE Acquire(r1, {"cleaned"}), {"content"})
            dropped == cleaned.null \/ Len(cleaned.str) = 0
            escaped == escapeJSON(cleaned, escOk)
            r3 == Release(IF escaped.null THEN r2 ELSE Acquire(r2, {"escaped"}), {"cleaned"})
        IN /\ matched' = Append(matched, node)
           /\ IF skipped
              THEN /\ res' = IF content.null THEN r1 ELSE Release(r1, {"content"})
                   /\ UNCHANGED <<pc, cb, allocFailed, useAfterFree>>
              ELSE IF dropped
              THEN /\ res' = IF cleaned.null THEN r2 ELSE Release(r2, {"cleaned"})
                   /\ allocFailed' = (allocFailed \/ ~cleanOk)
                   /\ useAfterFree' = (useAfterFree \/ ~Live(r1, "content"))
                   /\ UNCHANGED <<pc, cb>>
              ELSE /\ res' = r3
                   /\ allocFailed' = (allocFailed \/ ~escOk)
                   /\ useAfterFree' = (useAfterFree \/ ~Live(r1, "content")
                                                    \/ ~Live(r2, "cleaned"))
                   /\ IF escaped.null
                      THEN UNCHANGED <<pc, cb>>
                      ELSE /\ pc' = "cb_comma"
                           /\ cb' = [nodeType |-> NodeTypeOf(node), escaped |-> escaped.str]
    /\ UNCHANGED <<collVars, status, stack, nret, firstFail, textVars, appendVars>>

\* One resultCollectorAppend(collector, str) of the callback whose return
\* value is ignored, moving on to position next.
CallbackAppend(str, next) ==
    /\ \E o \in AppendOutcomes(collector, str) :
        /\ collector' = o.collector
        /\ freedBlocks' = freedBlocks \cup o.freed
        /\ res' = AfterAppend(res, o)
        /\ allocFailed' = (allocFailed \/ o.ret = 0)
    /\ useAfterFree' = (useAfterFree \/ ~Live(res, "collector") \/ ~Live(res, "buffer"))
    /\ pc' = next
    /\ UNCHANGED <<cb, status, stack, nret, matched, firstFail, textVars, appendVars>>

\* if (collector->itemCount > 0) resultCollectorAppend(collector, ",");
CallbackComma ==
    /\ pc = "cb_comma"
    /\ IF collector.itemCount > 0
       THEN CallbackAppend(<<",">>, "cb_header")
       ELSE /\ pc' = "cb_header"
            /\ UNCHANGED <<res, collVars, cb, status, stack, nret, matched, firstFail,
                           allocFailed, useAfterFree, textVars, appendVars>>

\* snprintf(buffer, ...); resultCollectorAppend(collector, buffer);
CallbackHeader ==
    /\ pc = "cb_header"
    /\ CallbackAppend(ItemHeader(cb.nodeType), "cb_content")

\* resultCollectorAppend(collector, escapedContent);
CallbackContent ==
    /\ pc = "cb_content"
    /\ useAfterFree' = (useAfterFree \/ ~Live(res, "escaped") \/ ~Live(res, "collector")
                                     \/ ~Live(res, "buffer"))
    /\ \E o \in AppendOutcomes(collector, cb.escaped) :
        /\ collector' = o.collector
        /\ freedBlocks' = freedBlocks \cup o.freed
        /\ res' = AfterAppend(res, o)
        /\ allocFailed' = (allocFailed \/ o.ret = 0)
    /\ pc' = "cb_close"
    /\ UNCHANGED <<cb, status, stack, nret, matched, firstFail, textVars, appendVars>>

\* resultCollectorAppend(collector, "\"}"); free(escapedContent);
\* collector->itemCount++; return LXB_STATUS_OK;
CallbackClose ==
    /\ pc = "cb_close"
    /\ \E o \in AppendOutcomes(collector, <<QUOTE, "}">>) :
        /\ collector' = [o.collector EXCEPT !.itemCount = @ + 1]
        /\ freedBlocks' = freedBlocks \cup o.freed
        /\ res' = Release(AfterAppend(res, o), {"escaped"})
        /\ allocFailed' = (allocFailed \/ o.ret = 0)
    /\ useAfterFree' = (useAfterFree \/ ~Live(res, "collector") \/ ~Live(res, "buffer"))
    /\ pc' = "find"
    /\ cb' = NoCallback
    /\ UNCHANGED <<status, stack, nret, matched, firstFail, textVars, appendVars>>

\* ------------------------------------------------------------ parseHTML, 2

\* lxb_selectors_find returns: LXB_STATUS_OK after the last match, or an
\* error status of the engine.
FindReturn ==
    /\ pc = "find"
    /\ \E st \in {"OK", "ERROR"} : status' = st
    /\ pc' = "close"
    /\ UNCHANGED <<res, collVars, cb, stack, nret, matched, firstFail, allocFailed,
                   useAfterFree, textVars, appendVars>>

\* resultCollectorAppend(collector, "]") after lxb_selectors_find.
ParseHTMLClose ==
    /\ pc = "close"
    /\ \E o \in AppendOutcomes(collector, <<"]">>) :
        /\ collector' = o.collector
        /\ freedBlocks' = freedBlocks \cup o.freed
        /\ res' = AfterAppend(res, o)
        /\ allocFailed' = (allocFailed \/ o.ret = 0)
    /\ useAfterFree' = (useAfterFree \/ ~Live(res, "collector") \/ ~Live(res, "buffer"))
    /\ pc' = "cleanup"
    /\ UNCHANGED <<cb, status, stack, nret, matched, firstFail, textVars, appendVars>>

\* resultCollectorDestroy(collector) on the resource table t.
resultCollectorDestroy(t, c) ==
    IF c.null THEN t
    ELSE Release(t, (IF c.json # 0 THEN {"buffer"} ELSE {}) \cup {"collector"})

\* The end of parseHTML that returns the JSON whatever the status.
parseHTMLReturnIgnoreStatus(st, c) ==
    [stack |-> <<PushJSON(c.str)>>, nret |-> 1]

\* The end of parseHTML: what it pushes and returns for the status of
\* lxb_selectors_find and the collector.
parseHTMLReturn(st, c) ==
    IF st # "OK"
    THEN [stack |-> <<PushNil, PushMessage("Failed to find elements")>>, nret |-> 2]
    ELSE [stack |-> <<PushJSON(c.str)>>, nret |-> 1]

\* parseHTML from the cleanup after lxb_selectors_find to its return.
ParseHTMLEnd ==
    /\ pc = "cleanup"
    /\ LET r1 == Release(res, {"selectors", "parser", "document"})
           out == parseHTMLReturn(status, collector)
       IN /\ res' = resultCollectorDestroy(r1, collector)
          /\ stack' = out.stack
          /\ nret' = out.nret
          /\ useAfterFree' = (useAfterFree \/ ~Live(r1, "collector") \/ ~Live(r1, "buffer"))
    /\ firstFail' = IF status # "OK" THEN "find" ELSE firstFail
    /\ freedBlocks' = freedBlocks \cup {collector.json}
    /\ collector' = NoCollector
    /\ pc' = "done"
    /\ UNCHANGED <<cb, status, matched, allocFailed, textVars, appendVars>>

\* ------------------------------------------------------------ specification

IdleRun == [buf |-> <<>>, writePos |-> 0, oob |-> FALSE, maxWrite |-> -1]

MainIdle ==
    /\ res = NoResources
    /\ cb = NoCallback
    /\ status = "none"
    /\ stack = <<>>
    /\ nret = -1
    /\ matched = <<>>
    /\ firstFail = "none"
    /\ allocFailed = FALSE
    /\ useAfterFree = FALSE

TextIdle ==
    /\ tpc = "off"
    /\ tIn = <<>>
    /\ tOut = IdleRun
    /\ tOut2 = IdleRun

AppendIdle ==
    /\ aStr = <<>>
    /\ aRet = -1
    /\ aCount = 0

\* One call of parseHTML.
Init ==
    /\ pc = "start"
    /\ MainIdle
    /\ collector = NoCollector
    /\ freedBlocks = {}
    /\ TextIdle
    /\ AppendIdle

Next ==
    \/ ParseHTMLBegin
    \/ SelectorCallback
    \/ CallbackComma
    \/ CallbackHeader
    \/ CallbackContent
    \/ CallbackClose
    \/ FindReturn
    \/ ParseHTMLClose
    \/ ParseHTMLEnd

Spec == Init /\ [][Next]_vars

\* --------------------------------------------------- the output JSON grammar

\* Array := "[" (Item ("," Item)*)? "]"
\* Item  := {"type":"<string>","content":"<string>"}
\* read by an automaton over the bytes; <string> is the inside of a JSON
\* string literal: no bare double quote, no bare control character, a
\* backslash only as the start of an escape.
GrammarOpen == <<"{", QUOTE, "t", "y", "p", "e", QUOTE, ":", QUOTE>>

GrammarMiddle == <<QUOTE, ",", QUOTE, "c", "o", "n", "t", "e", "n", "t", QUOTE, ":", QUOTE>>

JsonEscapable == {QUOTE, BSL, "/", "b", "f", "n", "r", "t"}

JState(ph, k) == [ph |-> ph, k |-> k]

JsonDead == JState("dead", 0)

JsonStringDelta(c, inside, escape, after) ==
    IF c = QUOTE THEN after
    ELSE IF c = BSL THEN JState(escape, 0)
    ELSE IF c \in ControlChars THEN JsonDead
    ELSE JState(inside, 0)

JsonDelta(q, c) ==
    CASE q.ph = "start" -> IF c = "[" THEN JState("first", 0) ELSE JsonDead
      [] q.ph = "first" -> IF c = "]" THEN JState("end", 0)
                           ELSE IF c = "{" THEN JState("open", 2) ELSE JsonDead
      [] q.ph = "open" -> IF c # GrammarOpen[q.k] THEN JsonDead
                          ELSE IF q.k = Len(GrammarOpen) THEN JState("type", 0)
                          ELSE JState("open", q.k + 1)
      [] q.ph = "type" -> JsonStringDelta(c, "type", "typeEscape", JState("middle", 2))
      [] q.ph = "typeEscape" -> IF c \in JsonEscapable THEN JState("type", 0) ELSE JsonDead
      [] q.ph = "middle" -> IF c # GrammarMiddle[q.k] THEN JsonDead
                            ELSE IF q.k = Len(GrammarMiddle) THEN JState("content", 0)
                            ELSE JState("middle", q.k + 1)
      [] q.ph = "content" -> JsonStringDelta(c, "content", "contentEscape", JState("brace", 0))
      [] q.ph = "contentEscape" -> IF c \in JsonEscapable THEN JState("content", 0) ELSE JsonDead
      [] q.ph = "brace" -> IF c = "}" THEN JState("item", 0) ELSE JsonDead
      [] q.ph = "item" -> IF c = "," THEN JState("comma", 0)
                          ELSE IF c = "]" THEN JState("end", 0) ELSE JsonDead
      [] q.ph = "comma" -> IF c = "{" THEN JState("open", 2) ELSE JsonDead
      [] OTHER -> JsonDead

\* The automaton's state after s[lo..hi] from state q, by halves so that
\* long strings do not nest deeply.
RECURSIVE JsonRun(_, _, _, _)
JsonRun(s, lo, hi, q) ==
    IF lo > hi THEN q
    ELSE IF lo = hi THEN JsonDelta(q, s[lo])
    ELSE LET mid == (lo + hi) \div 2
             q1 == JsonRun(s, lo, mid, q)
         IN IF q1.ph = "dead" THEN q1 ELSE JsonRun(s, mid + 1, hi, q1)

JsonStateOf(s) == JsonRun(s, 1, Len(s), JState("start", 0))

\* s is an Array of the grammar.
IsItemArray(s) == JsonStateOf(s).ph = "end"

\* s can be continued to an Array of the grammar and is not one yet.
IsOpenArrayPrefix(s) == JsonStateOf(s).ph \notin {"dead", "end"}

\* ------------------------------------------------------- claims on parseHTML

Returned == pc = "done" /\ nret = 1 /\ Len(stack) = 1 /\ stack[1].t = "json"

\* C1: every JSON string parseHTML returns is an Array of the grammar: an
\* array of objects with exactly the two string keys type and content.
C1_ReturnedJsonIsValid ==
    (pc = "done" /\ nret = 1) => (Returned /\ IsItemArray(stack[1].s))

\* C2: a call during which a malloc or realloc failed ends with the error
\* output (nil and a message), never with a JSON string.
C2_AllocFailureIsReported ==
    (pc = "done" /\ allocFailed) =>
        (nret = 2 /\ \A i \in 1..Len(stack) : stack[i].t # "json")

\* C3: no resource is released more often than it was acquired, none is
\* used after its release, and when the call has returned every resource it
\* acquired has been released.
C3_ReleasedExactlyOnce ==
    /\ ~useAfterFree
    /\ \A r \in Resources : res[r].rel <= res[r].acq
    /\ pc = "done" => \A r \in Resources : res[r].rel = res[r].acq

\* The same for every resource but the compiled selector list.
ReleasedExactlyOnceButList ==
    /\ ~useAfterFree
    /\ \A r \in Resources : res[r].rel <= res[r].acq
    /\ pc = "done" => \A r \in Resources \ {"list"} : res[r].rel = res[r].acq

\* The message the caller is to get when a step fails.
FailureMessage(s) ==
    CASE s = "args" -> "Invalid arguments"
      [] s = "doc_create" -> "Failed to create document"
      [] s = "doc_parse" -> "Failed to parse HTML"
      [] s = "parser_create" -> "Failed to create CSS parser"
      [] s = "parser_init" -> "Failed to initialize CSS parser"
      [] s = "selectors_create" -> "Failed to create selectors"
      [] s = "selectors_init" -> "Failed to initialize selectors"
      [] s = "css_parse" -> "Failed to parse CSS selector"
      [] s = "collector_struct" -> "Out of memory"
      [] s = "collector_json" -> "Out of memory"
      [] s = "find" -> "Failed to find elements"

\* C4: a finished call has produced exactly one of the two outputs, one JSON
\* string (1 result) or nil and one message (2 results); when a step failed
\* the output is nil and the message of the first failing step, and no JSON.
C4_ExactlyOneOutput ==
    pc = "done" =>
        /\ \/ nret = 1 /\ Len(stack) = 1 /\ stack[1].t = "json"
           \/ nret = 2 /\ Len(stack) = 2 /\ stack[1].t = "nil" /\ stack[2].t = "message"
        /\ firstFail # "none" =>
              /\ nret = 2
              /\ stack = <<PushNil, PushMessage(FailureMessage(firstFail))>>
        /\ firstFail = "none" => nret = 1

\* A call in which lxb_selectors_find failed after an item had been written.
C4_Witness ==
    /\ pc = "done"
    /\ firstFail = "find"
    /\ nret = 2
    /\ \E i \in 1..Len(matched) : matched[i].content = Some(<<"a", SP, SP, "b">>)
    /\ ~allocFailed

\* C5: while the collector exists its capacity is at least size + 1, its
\* buffer is a C string of length size, and the string is a prefix of an
\* Array that lacks the closing bracket until "]" has been appended.
C5_CollectorInvariant ==
    ~collector.null =>
        /\ collector.capacity >= collector.size + 1
        /\ Len(collector.str) = collector.size
        /\ IF pc = "cleanup"
           THEN IsItemArray(collector.str)
           ELSE IsOpenArrayPrefix(collector.str)

\* The part of C5 on sizes alone.
CollectorSizesOk ==
    ~collector.null =>
        /\ collector.capacity >= collector.size + 1
        /\ Len(collector.str) = collector.size

\* The node has text left after normalization: some byte is no whitespace.
HasText(node) ==
    /\ ~node.content.null
    /\ \E i \in 1..Len(node.content.str) : node.content.str[i] \notin {SP, TAB, LF, CR}

\* The item the callback writes for a node when nothing fails.
ItemOf(node) ==
    ItemHeader(NodeTypeOf(node))
    \o escapeJSON(cleanText(node.content, TRUE), TRUE).str \o <<QUOTE, "}">>

RECURSIVE JoinItems(_)
JoinItems(nodes) ==
    IF nodes = <<>> THEN <<>>
    ELSE IF Len(nodes) = 1 THEN ItemOf(nodes[1])
    ELSE ItemOf(nodes[1]) \o <<",">> \o JoinItems(Tail(nodes))

ExpectedArray(nodes) == <<"[">> \o JoinItems(SelectSeq(nodes, HasText)) \o <<"]">>

\* C6: the returned array holds one item for each matched node that has
\* text, in match order, separated by commas, and nothing for the others;
\* with no such node it is "[]".
C6_ItemsAreTheNodesWithText ==
    (pc = "done" /\ nret = 1) => (Returned /\ stack[1].s = ExpectedArray(matched))

\* C6 restricted to the calls in which no allocation failed.
ItemsAreTheNodesWithTextUnlessAllocFailed ==
    (pc = "done" /\ nret = 1 /\ ~allocFailed) =>
        (Returned /\ stack[1].s = ExpectedArray(matched))

\* C1 restricted to the calls in which no allocation failed, every tag name
\* is free of quotes and fits the header buffer, and no text holds a control
\* character that escapeJSON leaves as it is.
PlainNode(node) ==
    /\ \A i \in 1..Len(NodeTypeOf(node)) : NodeTypeOf(node)[i] \notin {QUOTE, BSL}
    /\ Len(NodeTypeOf(node)) < 200
    /\ \A i \in 1..Len(node.content.str) : node.content.str[i] # FF

ReturnedJsonIsValidForPlainNodes ==
    (pc = "done" /\ nret = 1 /\ ~allocFailed
        /\ \A i \in 1..Len(matched) : PlainNode(matched[i]))
    => (Returned /\ IsItemArray(stack[1].s))

\* ------------------------------------------------ the text helpers on their own

\* The bytes the inputs of SpecText are made of.
TextAlphabet == {"a", "b", SP, TAB, LF, CR, QUOTE, BSL}

\* cleanText(tIn)
ApplyCleanText ==
    /\ tpc = "init"
    /\ tOut' = cleanTextRun(tIn)
    /\ tpc' = "cleaned"
    /\ UNCHANGED <<mainVars, collVars, tIn, tOut2, appendVars>>

\* cleanText(cleanText(tIn))
ApplyCleanTextAgain ==
    /\ tpc = "cleaned"
    /\ tOut2' = cleanTextRun(BufStr(tOut))
    /\ tpc' = "recleaned"
    /\ UNCHANGED <<mainVars, collVars, tIn, tOut, appendVars>>

\* escapeJSON(tIn)
ApplyEscapeJSON ==
    /\ tpc = "init"
    /\ tOut' = escapeJSONRun(tIn)
    /\ tpc' = "escaped"
    /\ UNCHANGED <<mainVars, collVars, tIn, tOut2, appendVars>>

InitText ==
    /\ pc = "off"
    /\ MainIdle
    /\ collector = NoCollector
    /\ freedBlocks = {}
    /\ tpc = "init"
    /\ tIn \in SeqsUpTo(TextAlphabet, MaxTextLen)
    /\ tOut = IdleRun
    /\ tOut2 = IdleRun
    /\ AppendIdle

NextText ==
    \/ ApplyCleanText
    \/ ApplyCleanTextAgain
    \/ ApplyEscapeJSON

SpecText == InitText /\ [][NextText]_vars

\* ---------------------------------------------------------- claims on cleanText

Whitespace == {SP, TAB, LF, CR}

IsText(c) == c \notin Whitespace

\* The index in s of its k-th byte that is no whitespace.
NthText(s, k) ==
    CHOOSE i \in 1..Len(s) :
        IsText(s[i]) /\ Cardinality({j \in 1..i : IsText(s[j])}) = k

\* out is s with every maximal run of whitespace replaced by one space and
\* the leading and trailing whitespace removed.
IsNormalizationOf(out, s) ==
    /\ \A i \in 1..Len(out) : out[i] \notin {TAB, LF, CR}
    /\ out # <<>> => (out[1] # SP /\ out[Len(out)] # SP)
    /\ \A i \in 1..(Len(out) - 1) : ~(out[i] = SP /\ out[i + 1] = SP)
    /\ SelectSeq(out, IsText) = SelectSeq(s, IsText)
    /\ \A k \in 1..(Len(SelectSeq(s, IsText)) - 1) :
          (NthText(out, k + 1) = NthText(out, k) + 1)
              <=> (NthText(s, k + 1) = NthText(s, k) + 1)

\* C7: cleanText returns the normalization of its input, empty for an empty
\* or all-whitespace input and never longer than the input, and every
\* access to the len + 1 bytes of its buffer is inside the buffer.
C7_CleanTextNormalizes ==
    tpc \in {"cleaned", "recleaned"} =>
        /\ IsNormalizationOf(BufStr(tOut), tIn)
        /\ (\A i \in 1..Len(tIn) : tIn[i] \in Whitespace) => BufStr(tOut) = <<>>
        /\ Len(BufStr(tOut)) <= Len(tIn)
        /\ ~tOut.oob
        /\ tOut.maxWrite <= Len(tIn)

\* Leading, inner and trailing whitespace have been normalized.
C7_Witness ==
    /\ tpc = "cleaned"
    /\ tIn = <<LF, "a", TAB, CR>> \/ tIn = <<"a", TAB, LF, "b">>
    /\ BufStr(tOut) \in {<<"a">>, <<"a", SP, "b">>}

\* C10: cleanText applied to its own result returns it unchanged.
C10_CleanTextIdempotent ==
    tpc = "recleaned" => BufStr(tOut2) = BufStr(tOut)

\* cleanText ran twice on an input that the first run changed.
C10_Witness ==
    /\ tpc = "recleaned"
    /\ BufStr(tOut) # tIn
    /\ BufStr(tOut) # <<>>
    /\ \E i \in 1..Len(BufStr(tOut)) : BufStr(tOut)[i] = SP

\* --------------------------------------------------------- claims on escapeJSON

\* The escape of one byte.
EscapeOf(c) ==
    CASE c = QUOTE -> <<BSL, QUOTE>>
      [] c = BSL -> <<BSL, BSL>>
      [] c = LF -> <<BSL, "n">>
      [] c = CR -> <<BSL, "r">>
      [] c = TAB -> <<BSL, "t">>
      [] OTHER -> <<c>>

RECURSIVE EscapeAll(_)
EscapeAll(s) == IF s = <<>> THEN <<>> ELSE EscapeOf(Head(s)) \o EscapeAll(Tail(s))

\* From index i on, out has no double quote outside an escape and no
\* backslash that does not start one of \" \\ \n \r \t.
RECURSIVE WellEscapedFrom(_, _)
WellEscapedFrom(out, i) ==
    IF i > Len(out) THEN TRUE
    ELSE IF out[i] = BSL
         THEN /\ i + 1 <= Len(out)
              /\ out[i + 1] \in {QUOTE, BSL, "n", "r", "t"}
              /\ WellEscapedFrom(out, i + 2)
    ELSE IF out[i] = QUOTE THEN FALSE
    ELSE WellEscapedFrom(out, i + 1)

\* C8: escapeJSON maps each of the five bytes to its escape and every other
\* byte to itself, so its output has no bare quote or backslash; the output
\* is at most 2 * len bytes and every write is inside the 2 * len + 1 bytes
\* of its buffer.
C8_EscapeJSONEscapes ==
    tpc = "escaped" =>
        /\ BufStr(tOut) = EscapeAll(tIn)
        /\ WellEscapedFrom(BufStr(tOut), 1)
        /\ Len(BufStr(tOut)) <= 2 * Len(tIn)
        /\ ~tOut.oob
        /\ tOut.maxWrite <= 2 * Len(tIn)

\* An input with a quote, a backslash, a newline and a plain byte.
C8_Witness ==
    /\ tpc = "escaped"
    /\ tIn = <<QUOTE, BSL, LF, "a">>
    /\ BufStr(tOut) = <<BSL, QUOTE, BSL, BSL, BSL, "n", "a">>

\* ------------------------------------------- resultCollectorAppend on its own

\* The strings appended under SpecAppend: short ones, one that fills the
\* initial buffer to its last byte, one that needs one doubling, and one
\* that needs two.
AppendStrings ==
    {<<",">>, Fill("x", InitialCapacity - 2), Fill("x", InitialCapacity - 1),
     Fill("x", 3 * InitialCapacity)}

\* One resultCollectorAppend(collector, s).
AppendCall ==
    /\ aCount < MaxAppends
    /\ \E s \in AppendStrings :
        \E o \in AppendOutcomes(collector, s) :
            /\ collector' = o.collector
            /\ freedBlocks' = freedBlocks \cup o.freed
            /\ aStr' = s
            /\ aRet' = o.ret
    /\ aCount' = aCount + 1
    /\ UNCHANGED <<mainVars, textVars>>

InitAppend ==
    /\ pc = "off"
    /\ MainIdle
    /\ collector = resultCollectorCreate
    /\ freedBlocks = {}
    /\ TextIdle
    /\ AppendIdle

NextAppend == AppendCall

SpecAppend == InitAppend /\ [][NextAppend]_vars

\* new is old doubled at least once, up to the first value >= needed.
IsFirstDoubling(old, new, needed) ==
    \E k \in 1..16 :
        /\ new = old * (2 ^ k)
        /\ new >= needed
        /\ k > 1 => old * (2 ^ (k - 1)) < needed

\* C9: a successful append leaves the old content followed by the text, the
\* size grown by its length, the capacity unchanged when the text fits and
\* else doubled to the first sufficient value; a failed one changes nothing
\* and leaves the old buffer unfreed.
C9_AppendAllOrNothing ==
    [][aCount' = aCount + 1 =>
        LET len == Len(aStr')
            needed == collector.size + len + 1
        IN /\ aRet' \in {0, 1}
           /\ aRet' = 1 =>
                /\ collector'.str = collector.str \o aStr'
                /\ collector'.size = collector.size + len
                /\ collector'.itemCount = collector.itemCount
                /\ collector'.json \notin freedBlocks'
                /\ IF needed <= collector.capacity
                   THEN /\ collector'.capacity = collector.capacity
                        /\ collector'.json = collector.json
                        /\ freedBlocks' = freedBlocks
                   ELSE IsFirstDoubling(collector.capacity, collector'.capacity, needed)
           /\ aRet' = 0 =>
                /\ needed > collector.capacity
                /\ collector' = collector
                /\ freedBlocks' = freedBlocks
                /\ collector.json \notin freedBlocks']_vars

\* One call grew the buffer from its initial capacity by two doublings,
\* into a new block.
C9_Witness ==
    /\ aCount = 1
    /\ aRet = 1
    /\ collector.capacity = 4 * InitialCapacity
    /\ collector.size = 3 * InitialCapacity + 1
    /\ collector.json # 1

====
